---- MODULE Spec2Model ----
(***************************************************************************)
(* FactStore, Rule and the change-notification system of src/src/main.rs.  *)
(* The store is four maps (one per kind of fact) and four changed-sets;    *)
(* fact_update_event_broadcaster drains the changed-sets once per tick     *)
(* and sends one FactUpdated event per drained key.                        *)
(***************************************************************************)
EXTENDS Integers, Sequences, FiniteSets, TLC

VARIABLES
    int_facts,             \* HashMap<String, i32>
    string_facts,          \* HashMap<String, String>
    bool_facts,            \* HashMap<String, bool>
    list_facts,            \* HashMap<String, HashSet<String>>
    changed_int_facts,     \* HashSet<String>
    changed_string_facts,  \* HashSet<String>
    changed_bool_facts,    \* HashSet<String>
    changed_list_facts,    \* HashSet<String>
    pc,                    \* "running", or "panicked" once a system panicked
    last,                  \* the most recent call on the store and its output
    modified,              \* per kind: keys whose map entry changed since the drain
    written,               \* per kind: keys a write method was ever called on
    chain,                 \* per int key: adds of 1 since store_int(key, 0)
    app                    \* the Bevy app: who holds the store, the button's run

vars == <<int_facts, string_facts, bool_facts, list_facts,
          changed_int_facts, changed_string_facts, changed_bool_facts,
          changed_list_facts, pc, last, modified, written,
          chain, app>>

facts == <<int_facts, string_facts, bool_facts, list_facts>>
changed == <<changed_int_facts, changed_string_facts, changed_bool_facts,
             changed_list_facts>>

----------------------------------------------------------------------------
(* Bounds of the model and the inputs the calls are drawn from.            *)

MaxCount == 3

MaxI32 == 2147483647
MinI32 == (-MaxI32) - 1

Keys == {"button_pressed", "x"}
IntKeys == Keys
StringKeys == {"x"}
BoolKeys == {"x"}
ListKeys == {"x"}

IntValues == {MinI32, -1, 0, 1, MaxI32}
Deltas == {-1, 0, 1}
StringValues == {"", "s"}
Members == {"s"}

\* The values add_to_int / subtract_from_int may produce in the model.
InWindow(n) == (n >= -MaxCount /\ n <= MaxCount) \/ n = MinI32 \/ n = MaxI32

----------------------------------------------------------------------------
(* Option<T>: <<>> is None, <<v>> is Some(v).                              *)

None == <<>>
Some(v) == <<v>>
unwrap_or(opt, default) == IF opt = None THEN default ELSE opt[1]

(* HashMap: a function whose domain is the set of present keys.            *)
EmptyMap == [k \in {} |-> 0]
MapGet(map, key) == IF key \in DOMAIN map THEN Some(map[key]) ELSE None
MapInsert(map, key, value) ==
    [k \in DOMAIN map \cup {key} |-> IF k = key THEN value ELSE map[k]]

get_int(key) == MapGet(int_facts, key)
get_string(key) == MapGet(string_facts, key)
get_bool(key) == MapGet(bool_facts, key)
get_list(key) == MapGet(list_facts, key)

----------------------------------------------------------------------------
(* i32 arithmetic.  add and sub report whether the exact result leaves the *)
(* i32 range and give the two's-complement result a build without          *)
(* overflow checks stores.                                                 *)

AddOverflows(a, b) ==
    \/ b > 0 /\ a > MaxI32 - b
    \/ b < 0 /\ a < MinI32 - b

wrapping_add(a, b) ==
    IF b > 0 /\ a > MaxI32 - b THEN (a - MaxI32 - 1) + (b + MinI32)
    ELSE IF b < 0 /\ a < MinI32 - b THEN (a - MinI32) + (b + MaxI32) + 1
    ELSE a + b

SubOverflows(a, b) ==
    \/ b > 0 /\ a < MinI32 + b
    \/ b < 0 /\ a > MaxI32 + b

wrapping_sub(a, b) ==
    IF b > 0 /\ a < MinI32 + b THEN (a - MinI32) + (MaxI32 - b) + 1
    ELSE IF b < 0 /\ a > MaxI32 + b THEN (a - MaxI32 - 1) + (MinI32 - b)
    ELSE a - b

----------------------------------------------------------------------------
(* FactStore::new                                                          *)

\* A record of one call: the method, its arguments, whether it returned
\* (ok) or panicked, what it sent and, for a read, what it returned (result).
\* again: the call repeats the previous
\* write call (same method, key and value), drained: with a flush in between.
\* A flush keeps in after/key/val the write call that preceded it; its again
\* says that the previous call was a flush too.
\* before: for add_to_int, Some(get_int(key)) as it was when the call began;
\* for a subtract_from_int that directly follows a returned add_to_int of
\* the same key and value, the before of that add_to_int.
Call(op, key, val, again, drained, ok) ==
    [op |-> op, key |-> key, val |-> val, again |-> again,
     drained |-> drained, ok |-> ok, after |-> "", sent |-> <<>>,
     result |-> <<>>, before |-> <<>>]

\* The app before the first Update: nobody holds ResMut<FactStore>, no system
\* is scheduled, and both buttons show the text they were spawned with.
\* holder: the system holding the store; current: the local of add_to_int
\* between its read and its store; query: the changed interactions the
\* running button_system still has to handle; todo, ran: the systems of this
\* Update still to run, and those started, in order; seen: the orders of the
\* finished Updates; presses: the Pressed interactions handled so far.
Buttons == {1, 2}

Label(label, count) == [label |-> label, count |-> count]

NoRun ==
    [holder |-> "none", current |-> None, query |-> <<>>, todo |-> {},
     ran |-> <<>>, seen |-> {}, presses |-> 0,
     text |-> [button \in Buttons |-> Label("Button", 0)]]

NoCall == Call("new", "", 0, FALSE, FALSE, TRUE)

Init ==
    /\ int_facts = EmptyMap
    /\ string_facts = EmptyMap
    /\ bool_facts = EmptyMap
    /\ list_facts = EmptyMap
    /\ changed_int_facts = {}
    /\ changed_string_facts = {}
    /\ changed_bool_facts = {}
    /\ changed_list_facts = {}
    /\ pc = "running"
    /\ last = NoCall
    /\ modified = [int |-> {}, string |-> {}, bool |-> {}, list |-> {}]
    /\ written = [int |-> {}, string |-> {}, bool |-> {}, list |-> {}]
    /\ chain = [k \in IntKeys |-> -1]
    /\ app = NoRun

----------------------------------------------------------------------------
(* The write methods of FactStore: their effect on the fields they touch.  *)

\* store_int without the comparison: every call inserts and marks.
store_int_unconditional(key, value) ==
    /\ int_facts' = MapInsert(int_facts, key, value)
    /\ changed_int_facts' = changed_int_facts \cup {key}

store_int(key, value) ==
    LET current_value == get_int(key) IN
    IF unwrap_or(current_value, 0) # value
    THEN /\ int_facts' = MapInsert(int_facts, key, value)
         /\ changed_int_facts' = changed_int_facts \cup {key}
    ELSE UNCHANGED <<int_facts, changed_int_facts>>

store_string(key, value) ==
    LET current_value == get_string(key) IN
    IF unwrap_or(current_value, "") # value
    THEN /\ changed_string_facts' = (changed_string_facts \cup {key}) \cup {key}
         /\ UNCHANGED string_facts
    ELSE UNCHANGED <<string_facts, changed_string_facts>>

store_bool(key, value) ==
    LET current_value == get_bool(key) IN
    IF unwrap_or(current_value, FALSE) # value
    THEN /\ bool_facts' = MapInsert(bool_facts, key, value)
         /\ changed_bool_facts' = changed_bool_facts \cup {key}
    ELSE UNCHANGED <<bool_facts, changed_bool_facts>>

\* add_to_string_list that marks the key on every call.
add_to_string_list_always_marks(key, value) ==
    /\ list_facts' = MapInsert(list_facts, key,
                               unwrap_or(get_list(key), {}) \cup {value})
    /\ changed_list_facts' = changed_list_facts \cup {key}

add_to_string_list(key, value) ==
    IF key \in DOMAIN list_facts
    THEN IF value \notin list_facts[key]
         THEN /\ list_facts' = MapInsert(list_facts, key, list_facts[key] \cup {value})
              /\ changed_list_facts' = changed_list_facts \cup {key}
         ELSE UNCHANGED <<list_facts, changed_list_facts>>
    ELSE /\ list_facts' = MapInsert(list_facts, key, {value})
         /\ changed_list_facts' = changed_list_facts \cup {key}

\* remove_from_string_list that marks the key whenever the set exists.
remove_from_string_list_marks_present(key, value) ==
    IF key \in DOMAIN list_facts
    THEN /\ list_facts' = MapInsert(list_facts, key, list_facts[key] \ {value})
         /\ changed_list_facts' = changed_list_facts \cup {key}
    ELSE UNCHANGED <<list_facts, changed_list_facts>>

remove_from_string_list(key, value) ==
    IF key \in DOMAIN list_facts /\ value \in list_facts[key]
    THEN /\ list_facts' = MapInsert(list_facts, key, list_facts[key] \ {value})
         /\ changed_list_facts' = changed_list_facts \cup {key}
    ELSE UNCHANGED <<list_facts, changed_list_facts>>

\* current + value and current - value in i32: the exact result when it is in
\* range; out of range the build decides: with overflow checks (debug) the
\* operator panics, without them (release) the result wraps.
add_to_int(key, value) ==
    LET current == unwrap_or(get_int(key), 0) IN
    IF AddOverflows(current, value)
    THEN \/ pc' = "panicked" /\ UNCHANGED <<int_facts, changed_int_facts>>
         \/ pc' = pc /\ store_int(key, wrapping_add(current, value))
    ELSE pc' = pc /\ store_int(key, current + value)

\* subtract_from_int that treats 0 as no fact: a result of 0 removes the
\* entry of the key.
subtract_from_int_drops_zero(key, value) ==
    LET current == unwrap_or(get_int(key), 0) IN
    IF SubOverflows(current, value)
    THEN \/ pc' = "panicked" /\ UNCHANGED <<int_facts, changed_int_facts>>
         \/ pc' = pc /\ store_int(key, wrapping_sub(current, value))
    ELSE /\ pc' = pc
         /\ IF current - value = 0
            THEN /\ int_facts' = [k \in DOMAIN int_facts \ {key} |-> int_facts[k]]
                 /\ changed_int_facts' = changed_int_facts \cup {key}
            ELSE store_int(key, current - value)

subtract_from_int(key, value) ==
    LET current == unwrap_or(get_int(key), 0) IN
    IF SubOverflows(current, value)
    THEN \/ pc' = "panicked" /\ UNCHANGED <<int_facts, changed_int_facts>>
         \/ pc' = pc /\ store_int(key, wrapping_sub(current, value))
    ELSE pc' = pc /\ store_int(key, current - value)

----------------------------------------------------------------------------
(* Bookkeeping of the calls.                                               *)

PrevOp == IF last.op = "flush" THEN last.after ELSE last.op

Repeats(op, key, val) == PrevOp = op /\ last.key = key /\ last.val = val

Record(op, key, val) ==
    last' = Call(op, key, val, Repeats(op, key, val),
                 Repeats(op, key, val) /\ last.op = "flush", pc' = "running")

\* Record, keeping what get_int returned before the pair of calls.
RecordFrom(op, key, val, before) ==
    last' = [Call(op, key, val, Repeats(op, key, val),
                  Repeats(op, key, val) /\ last.op = "flush", pc' = "running")
             EXCEPT !.before = before]

Touched(kind, key, before, after) ==
    /\ modified' = [modified EXCEPT ![kind] = IF before # after THEN @ \cup {key} ELSE @]
    /\ written' = [written EXCEPT ![kind] = @ \cup {key}]

----------------------------------------------------------------------------
(* Calls of the write methods by a system that owns the store.             *)

CallStoreInt(key, value) ==
    /\ pc = "running"
    /\ UNCHANGED <<app, string_facts, bool_facts, list_facts, changed_string_facts,
                   changed_bool_facts, changed_list_facts, pc>>
    /\ store_int(key, value)
    /\ Record("store_int", key, value)
    /\ Touched("int", key, int_facts, int_facts')
    /\ chain' = [chain EXCEPT ![key] = IF value = 0 THEN 0 ELSE -1]

CallAddToInt(key, value) ==
    /\ pc = "running"
    /\ UNCHANGED <<app, string_facts, bool_facts, list_facts, changed_string_facts,
                   changed_bool_facts, changed_list_facts>>
    /\ LET current == unwrap_or(get_int(key), 0) IN
          IF AddOverflows(current, value) THEN TRUE ELSE InWindow(current + value)
    /\ add_to_int(key, value)
    /\ RecordFrom("add_to_int", key, value, Some(get_int(key)))
    /\ Touched("int", key, int_facts, int_facts')
    /\ chain' = [chain EXCEPT ![key] =
                    IF value = 1 /\ @ >= 0 /\ @ < MaxCount /\ pc' = "running"
                    THEN @ + 1 ELSE -1]

CallSubtractFromInt(key, value) ==
    /\ pc = "running"
    /\ UNCHANGED <<app, string_facts, bool_facts, list_facts, changed_string_facts,
                   changed_bool_facts, changed_list_facts>>
    /\ LET current == unwrap_or(get_int(key), 0) IN
          IF SubOverflows(current, value) THEN TRUE ELSE InWindow(current - value)
    /\ subtract_from_int(key, value)
    /\ RecordFrom("subtract_from_int", key, value,
                  IF last.op = "add_to_int" /\ last.key = key
                        /\ last.val = value /\ last.ok
                  THEN last.before ELSE None)
    /\ Touched("int", key, int_facts, int_facts')
    /\ chain' = [chain EXCEPT ![key] = -1]

CallStoreString(key, value) ==
    /\ pc = "running"
    /\ UNCHANGED <<app, int_facts, bool_facts, list_facts, changed_int_facts,
                   changed_bool_facts, changed_list_facts, pc,
                   chain>>
    /\ store_string(key, value)
    /\ Record("store_string", key, value)
    /\ Touched("string", key, string_facts, string_facts')

\* A store_bool on a store that keeps one changed-set for all kinds: the key
\* is marked for the int loop of the flush too.
CallStoreBool_one_changed_set(key, value) ==
    /\ pc = "running"
    /\ UNCHANGED <<app, int_facts, string_facts, list_facts,
                   changed_string_facts, changed_list_facts, pc,
                   chain>>
    /\ store_bool(key, value)
    /\ changed_int_facts' = IF key \in changed_bool_facts'
                            THEN changed_int_facts \cup {key}
                            ELSE changed_int_facts
    /\ Record("store_bool", key, value)
    /\ Touched("bool", key, bool_facts, bool_facts')

CallStoreBool(key, value) ==
    /\ pc = "running"
    /\ UNCHANGED <<app, int_facts, string_facts, list_facts, changed_int_facts,
                   changed_string_facts, changed_list_facts, pc,
                   chain>>
    /\ store_bool(key, value)
    /\ Record("store_bool", key, value)
    /\ Touched("bool", key, bool_facts, bool_facts')

CallAddToStringList(key, value) ==
    /\ pc = "running"
    /\ UNCHANGED <<app, int_facts, string_facts, bool_facts, changed_int_facts,
                   changed_string_facts, changed_bool_facts, pc,
                   chain>>
    /\ add_to_string_list(key, value)
    /\ Record("add_to_string_list", key, value)
    /\ Touched("list", key, list_facts, list_facts')

CallRemoveFromStringList(key, value) ==
    /\ pc = "running"
    /\ UNCHANGED <<app, int_facts, string_facts, bool_facts, changed_int_facts,
                   changed_string_facts, changed_bool_facts, pc,
                   chain>>
    /\ remove_from_string_list(key, value)
    /\ Record("remove_from_string_list", key, value)
    /\ Touched("list", key, list_facts, list_facts')

----------------------------------------------------------------------------
(* fact_update_event_broadcaster: one loop per kind, in the order int,     *)
(* string, bool, list.  A loop takes the keys of its changed-set in the    *)
(* order drain() yields them (any order), looks each key up in the kind's  *)
(* map and sends one FactUpdated.  The lookup is unwrap()ped: a key with   *)
(* no entry panics the system.  The changed-set of a loop that started is  *)
(* empty afterwards (drain() clears it, also when the iterator is dropped  *)
(* by the panic); the loops after the panic do not run.                    *)

Orders(set) ==
    {order \in [1..Cardinality(set) -> set] :
        \A i, j \in 1..Cardinality(set) : order[i] = order[j] => i = j}

FactUpdated(key, kind, value) ==
    [key |-> key, fact |-> [kind |-> kind, value |-> value]]

\* The index of the first key of the drain order whose lookup panics, or 0.
FirstAbsent(order, map) ==
    IF \A i \in 1..Len(order) : order[i] \in DOMAIN map
    THEN 0
    ELSE CHOOSE i \in 1..Len(order) :
            /\ order[i] \notin DOMAIN map
            /\ \A j \in 1..(i - 1) : order[j] \in DOMAIN map

DrainLoop(order, map, kind) ==
    LET stop == FirstAbsent(order, map)
        n == IF stop = 0 THEN Len(order) ELSE stop - 1
    IN  [sent |-> [i \in 1..n |-> FactUpdated(order[i], kind, map[order[i]])],
         ok |-> stop = 0]

\* The broadcaster with the bool loop moved in front of the int loop.
fact_update_event_broadcaster_bools_first(int_order, string_order, bool_order, list_order) ==
    LET ints == DrainLoop(int_order, int_facts, "Int")
        strings == DrainLoop(string_order, string_facts, "String")
        bools == DrainLoop(bool_order, bool_facts, "Bool")
        lists == DrainLoop(list_order, list_facts, "StringList")
        ran_bools == TRUE
        ran_ints == bools.ok
        ran_strings == ran_ints /\ ints.ok
        ran_lists == ran_strings /\ strings.ok
        finished == ran_lists /\ lists.ok
        sent == bools.sent
                \o (IF ran_ints THEN ints.sent ELSE <<>>)
                \o (IF ran_strings THEN strings.sent ELSE <<>>)
                \o (IF ran_lists THEN lists.sent ELSE <<>>)
    IN  /\ changed_bool_facts' = {}
        /\ changed_int_facts' = IF ran_ints THEN {} ELSE changed_int_facts
        /\ changed_string_facts' = IF ran_strings THEN {} ELSE changed_string_facts
        /\ changed_list_facts' = IF ran_lists THEN {} ELSE changed_list_facts
        /\ pc' = IF finished THEN "running" ELSE "panicked"
        /\ last' = [op |-> "flush", key |-> last.key, val |-> last.val,
                    again |-> last.op = "flush", drained |-> FALSE,
                    ok |-> finished, after |-> PrevOp, sent |-> sent,
                    result |-> <<>>, before |-> <<>>]
        /\ modified' = [int |-> IF ran_ints THEN {} ELSE modified.int,
                        string |-> IF ran_strings THEN {} ELSE modified.string,
                        bool |-> {},
                        list |-> IF ran_lists THEN {} ELSE modified.list]
        /\ UNCHANGED <<facts, written>>

fact_update_event_broadcaster(int_order, string_order, bool_order, list_order) ==
    LET ints == DrainLoop(int_order, int_facts, "Int")
        strings == DrainLoop(string_order, string_facts, "String")
        bools == DrainLoop(bool_order, bool_facts, "Bool")
        lists == DrainLoop(list_order, list_facts, "StringList")
        ran_strings == ints.ok
        ran_bools == ran_strings /\ strings.ok
        ran_lists == ran_bools /\ bools.ok
        finished == ran_lists /\ lists.ok
        sent == ints.sent
                \o (IF ran_strings THEN strings.sent ELSE <<>>)
                \o (IF ran_bools THEN bools.sent ELSE <<>>)
                \o (IF ran_lists THEN lists.sent ELSE <<>>)
    IN  /\ changed_int_facts' = {}
        /\ changed_string_facts' = IF ran_strings THEN {} ELSE changed_string_facts
        /\ changed_bool_facts' = IF ran_bools THEN {} ELSE changed_bool_facts
        /\ changed_list_facts' = IF ran_lists THEN {} ELSE changed_list_facts
        /\ pc' = IF finished THEN "running" ELSE "panicked"
        /\ last' = [op |-> "flush", key |-> last.key, val |-> last.val,
                    again |-> last.op = "flush", drained |-> FALSE,
                    ok |-> finished, after |-> PrevOp, sent |-> sent,
                    result |-> <<>>, before |-> <<>>]
        /\ modified' = [int |-> {},
                        string |-> IF ran_strings THEN {} ELSE modified.string,
                        bool |-> IF ran_bools THEN {} ELSE modified.bool,
                        list |-> IF ran_lists THEN {} ELSE modified.list]
        /\ UNCHANGED <<facts, written>>

Flush ==
    /\ pc = "running"
    /\ \E int_order \in Orders(changed_int_facts),
          string_order \in Orders(changed_string_facts),
          bool_order \in Orders(changed_bool_facts),
          list_order \in Orders(changed_list_facts) :
            fact_update_event_broadcaster(int_order, string_order, bool_order,
                                          list_order)
    /\ chain' = [k \in IntKeys |-> -1]
    /\ UNCHANGED app

----------------------------------------------------------------------------

(* A host whose systems call every write method and run the flush; its     *)
(* int facts are flags (0 or 1).                                           *)

IntFlags == {0, 1}

Next ==
    \/ \E key \in IntKeys, value \in IntFlags : CallStoreInt(key, value)
    \/ \E key \in IntKeys :
          unwrap_or(get_int(key), 0) = 0 /\ CallAddToInt(key, 1)
    \/ \E key \in IntKeys :
          unwrap_or(get_int(key), 0) = 1 /\ CallSubtractFromInt(key, 1)
    \/ \E key \in StringKeys, value \in StringValues : CallStoreString(key, value)
    \/ \E key \in BoolKeys, value \in BOOLEAN : CallStoreBool(key, value)
    \/ \E key \in ListKeys, value \in Members : CallAddToStringList(key, value)
    \/ \E key \in ListKeys, value \in Members : CallRemoveFromStringList(key, value)
    \/ Flush

Spec == Init /\ [][Next]_vars

(* A host that keeps counters: only the int methods and the flush, over    *)
(* the whole window of values and the ends of the i32 range.               *)

NextInt ==
    \/ \E key \in IntKeys, value \in IntValues : CallStoreInt(key, value)
    \/ \E key \in IntKeys, value \in Deltas : CallAddToInt(key, value)
    \/ \E key \in IntKeys, value \in Deltas : CallSubtractFromInt(key, value)
    \/ Flush

SpecInt == Init /\ [][NextInt]_vars

----------------------------------------------------------------------------
(* Properties.  Did(op, key, val): the step is the call op(key, val).      *)

Did(op, key, val) == last'.op = op /\ last'.key = key /\ last'.val = val

Flushed == last'.op = "flush"

\* C1: for each of the four kinds, a key is in the kind's changed-set if and
\* only if a write since the last drain of that changed-set inserted or
\* overwrote the key's value in the kind's map.
C1_ChangedIffModified ==
    /\ changed_int_facts = modified.int
    /\ changed_string_facts = modified.string
    /\ changed_bool_facts = modified.bool
    /\ changed_list_facts = modified.list

\* C2: set_string(k, v) with v different from k's prior value (absent read
\* as "") leaves v stored under k in the string map and k in the string
\* changed-set.
C2_SetStringStores ==
    [][\A key \in StringKeys, value \in StringValues :
          (Did("store_string", key, value)
             /\ value # unwrap_or(MapGet(string_facts, key), ""))
          => /\ MapGet(string_facts', key) = Some(value)
             /\ key \in changed_string_facts']_vars

\* C3: set_int(x, 0) on a key never written under the int kind leaves
\* get_int(x) = Some(0) and x outside the int changed-set.
C3_DefaultWriteMasking ==
    [][\A key \in IntKeys :
          (Did("store_int", key, 0) /\ key \notin written.int)
          => /\ MapGet(int_facts', key) = Some(0)
             /\ key \notin changed_int_facts']_vars

\* C4: a set_int(k, v) marks k in the int changed-set exactly when v differs
\* from the prior value (absent read as 0), and a set_int(k, v) that
\* immediately repeats the previous write call, with or without a flush in
\* between, changes neither the int map nor the int changed-set.
C4_SetIntIdempotent ==
    [][\A key \in IntKeys, value \in IntValues :
          Did("store_int", key, value)
          => /\ key \in changed_int_facts'
                  <=> (key \in changed_int_facts
                         \/ value # unwrap_or(MapGet(int_facts, key), 0))
             /\ last'.again
                  => /\ int_facts' = int_facts
                     /\ changed_int_facts' = changed_int_facts]_vars

\* The second of two equal set_int calls with a drain in between has run:
\* the value of the first call is stored and the key is not marked again.
C4_Witness ==
    /\ last.op = "store_int" /\ last.again /\ last.drained
    /\ last.val # 0
    /\ MapGet(int_facts, last.key) = Some(last.val)
    /\ last.key \notin changed_int_facts

\* C5: once set_string(k, v) (resp. set_bool(k, b)) has been performed and
\* the flush has drained the changed-set of that kind, repeating the same
\* write does not put k back into the changed-set and leaves the stored
\* value unchanged.
C5_RepeatAfterDrain ==
    [][
        /\ (Flushed /\ last.op = "store_string")
           => (pc' = "running" /\ changed_string_facts' = {})
        /\ (Flushed /\ last.op = "store_bool")
           => (pc' = "running" /\ changed_bool_facts' = {})
        /\ \A key \in StringKeys, value \in StringValues :
              (Did("store_string", key, value) /\ last'.again /\ last'.drained)
              => /\ key \notin changed_string_facts'
                 /\ string_facts' = string_facts
        /\ \A key \in BoolKeys, value \in BOOLEAN :
              (Did("store_bool", key, value) /\ last'.again /\ last'.drained)
              => /\ key \notin changed_bool_facts'
                 /\ bool_facts' = bool_facts
      ]_vars

\* C6: every key in the changed-set of a kind has a value in that kind's
\* map, and no lookup of a flush hits an absent key.
C6_ChangedKeysHaveValues ==
    /\ changed_int_facts \subseteq DOMAIN int_facts
    /\ changed_string_facts \subseteq DOMAIN string_facts
    /\ changed_bool_facts \subseteq DOMAIN bool_facts
    /\ changed_list_facts \subseteq DOMAIN list_facts
    /\ last.op = "flush" => last.ok

\* The flush sent exactly one event for key under kind, carrying map[key].
SentOnce(sent, key, kind, map) ==
    /\ key \in DOMAIN map
    /\ Cardinality({i \in DOMAIN sent :
                       sent[i].key = key /\ sent[i].fact.kind = kind}) = 1
    /\ \E i \in DOMAIN sent :
          /\ sent[i].key = key
          /\ sent[i].fact.kind = kind
          /\ sent[i].fact.value = map[key]

ChangedOf(kind) ==
    CASE kind = "Int" -> changed_int_facts
      [] kind = "String" -> changed_string_facts
      [] kind = "Bool" -> changed_bool_facts
      [] kind = "StringList" -> changed_list_facts

\* C7: a flush sends exactly one notification per key that is in a
\* changed-set when the flush starts, carrying the value stored under the
\* key at that time, and no notification for a key outside the changed-sets.
C7_OneNotificationPerKey ==
    [][Flushed =>
        /\ \A key \in changed_int_facts :
              SentOnce(last'.sent, key, "Int", int_facts)
        /\ \A key \in changed_string_facts :
              SentOnce(last'.sent, key, "String", string_facts)
        /\ \A key \in changed_bool_facts :
              SentOnce(last'.sent, key, "Bool", bool_facts)
        /\ \A key \in changed_list_facts :
              SentOnce(last'.sent, key, "StringList", list_facts)
        /\ \A i \in DOMAIN last'.sent :
              last'.sent[i].key \in ChangedOf(last'.sent[i].fact.kind)]_vars

\* C8: after a flush every changed-set is empty; a flush that directly
\* follows a flush sends nothing; a set_int that directly follows a flush
\* and changes a key leaves exactly that key in the int changed-set.
C8_DrainExclusivity ==
    [][
        /\ Flushed => /\ changed_int_facts' = {}
                      /\ changed_string_facts' = {}
                      /\ changed_bool_facts' = {}
                      /\ changed_list_facts' = {}
        /\ (Flushed /\ last.op = "flush") => last'.sent = <<>>
        /\ \A key \in IntKeys, value \in IntFlags :
              (Did("store_int", key, value) /\ last.op = "flush"
                 /\ value # unwrap_or(MapGet(int_facts, key), 0))
              => changed_int_facts' = {key}
      ]_vars

KindRank(kind) ==
    CASE kind = "Int" -> 1
      [] kind = "String" -> 2
      [] kind = "Bool" -> 3
      [] kind = "StringList" -> 4

\* C9: the notifications of one flush are in kind order: int keys, then
\* string keys, then bool keys, then set keys.
C9_KindOrder ==
    last.op = "flush"
    => \A i, j \in DOMAIN last.sent :
          i < j => KindRank(last.sent[i].fact.kind)
                     <= KindRank(last.sent[j].fact.kind)

\* A flush has sent notifications of three kinds.
C9_Witness ==
    /\ last.op = "flush"
    /\ \E i \in DOMAIN last.sent : last.sent[i].fact.kind = "Int"
    /\ \E i \in DOMAIN last.sent : last.sent[i].fact.kind = "Bool"
    /\ \E i \in DOMAIN last.sent : last.sent[i].fact.kind = "StringList"

\* C10: add_int(k, d) and sub_int(k, d) set the effective int value of k
\* (absent read as 0) to old + d and old - d, and mark k changed exactly
\* when the new value differs from the old one; set_int(k, 0) followed by
\* n >= 1 calls add_int(k, 1) leaves get_int(k) = Some(n) and k in the int
\* changed-set.
C10_AddSubInt ==
    [][
        /\ \A key \in IntKeys, delta \in Deltas :
              Did("add_to_int", key, delta)
              => LET old == unwrap_or(MapGet(int_facts, key), 0)
                     new == unwrap_or(MapGet(int_facts', key), 0)
                 IN  /\ ~AddOverflows(old, delta)
                     /\ new = old + delta
                     /\ key \in changed_int_facts'
                          <=> (key \in changed_int_facts \/ new # old)
        /\ \A key \in IntKeys, delta \in Deltas :
              Did("subtract_from_int", key, delta)
              => LET old == unwrap_or(MapGet(int_facts, key), 0)
                     new == unwrap_or(MapGet(int_facts', key), 0)
                 IN  /\ ~SubOverflows(old, delta)
                     /\ new = old - delta
                     /\ key \in changed_int_facts'
                          <=> (key \in changed_int_facts \/ new # old)
        /\ \A key \in IntKeys :
              chain'[key] >= 1
              => /\ MapGet(int_facts', key) = Some(chain'[key])
                 /\ key \in changed_int_facts'
      ]_vars

----------------------------------------------------------------------------
(* A host that keeps string sets: add_to_string_list,                      *)
(* remove_from_string_list and the flush, over two keys and two members.   *)

SetMembers == {"a", "b"}

NextList ==
    \/ \E key \in Keys, value \in SetMembers : CallAddToStringList(key, value)
    \/ \E key \in Keys, value \in SetMembers : CallRemoveFromStringList(key, value)
    \/ Flush

SpecList == Init /\ [][NextList]_vars

\* C11: add_to_set(k, v) creates the set at k if absent and inserts v; k is
\* marked changed if and only if the set did not already contain v; a
\* duplicate insert leaves the set, which holds v, and the set changed-set
\* unchanged.
C11_AddToSet ==
    [][\A key \in Keys, value \in SetMembers :
          Did("add_to_string_list", key, value)
          => LET old == unwrap_or(MapGet(list_facts, key), {})
                 duplicate == value \in old
             IN  /\ key \in DOMAIN list_facts'
                 /\ list_facts'[key] = old \cup {value}
                 /\ \A other \in DOMAIN list_facts \ {key} :
                       list_facts'[other] = list_facts[other]
                 /\ key \in changed_list_facts'
                      <=> (key \in changed_list_facts \/ ~duplicate)
                 /\ duplicate => /\ list_facts' = list_facts
                                 /\ changed_list_facts' = changed_list_facts]_vars

\* A duplicate insert after a drain has run: the member is in the set and
\* the key is not marked.
C11_Witness ==
    /\ last.op = "add_to_string_list" /\ last.again /\ last.drained
    /\ last.key \in DOMAIN list_facts
    /\ last.val \in list_facts[last.key]
    /\ last.key \notin changed_list_facts

\* C12: remove_from_set(k, v) removes v from the set at k when present and
\* marks k changed if and only if a removal occurred; when k is absent or
\* its set does not contain v, the maps and the changed-sets are left
\* unchanged and the call does not fail.
C12_RemoveFromSet ==
    [][\A key \in Keys, value \in SetMembers :
          Did("remove_from_string_list", key, value)
          => LET removal == key \in DOMAIN list_facts /\ value \in list_facts[key]
             IN  /\ pc' = "running"
                 /\ removal => /\ key \in DOMAIN list_facts'
                               /\ list_facts'[key] = list_facts[key] \ {value}
                               /\ \A other \in DOMAIN list_facts \ {key} :
                                     list_facts'[other] = list_facts[other]
                               /\ DOMAIN list_facts' = DOMAIN list_facts
                 /\ key \in changed_list_facts'
                      <=> (key \in changed_list_facts \/ removal)
                 /\ ~removal => /\ facts' = facts
                                /\ changed' = changed]_vars

\* A removal has emptied a set and marked its key, and a removal on a key
\* that was never written has left it absent.
C12_Witness ==
    /\ last.op = "remove_from_string_list"
    /\ \E key \in Keys :
          /\ key \in DOMAIN list_facts
          /\ list_facts[key] = {}
          /\ key \in changed_list_facts
    /\ last.key \notin DOMAIN list_facts

----------------------------------------------------------------------------
(* Condition and Rule.  A Condition is a record tagged with its variant,   *)
(* with the key and the literal (text, number, flag or member) it holds;   *)
(* Invert owns one inner condition.  A Rule is its Vec of conditions.      *)

StringEquals(key, value) == [variant |-> "StringEquals", key |-> key, text |-> value]
IntEquals(key, value) == [variant |-> "IntEquals", key |-> key, number |-> value]
IntLargerThan(key, value) == [variant |-> "IntLargerThan", key |-> key, number |-> value]
IntLessThan(key, value) == [variant |-> "IntLessThan", key |-> key, number |-> value]
BoolEquals(key, value) == [variant |-> "BoolEquals", key |-> key, flag |-> value]
ListContains(key, value) == [variant |-> "ListContains", key |-> key, member |-> value]
Invert(inner_condition) == [variant |-> "Invert", inner |-> inner_condition]

\* The &FactStore a rule is evaluated against: the four maps.
fact_store ==
    [int_facts |-> int_facts, string_facts |-> string_facts,
     bool_facts |-> bool_facts, list_facts |-> list_facts]

\* IntTest with >= and <= in place of > and <.
IntTest_inclusive(variant, fact, value) ==
    CASE variant = "IntEquals" -> fact = value
      [] variant = "IntLargerThan" -> fact >= value
      [] variant = "IntLessThan" -> fact <= value

\* Option::map_or(false, |fact| ...) on an integer fact, by variant.
IntTest(variant, fact, value) ==
    CASE variant = "IntEquals" -> fact = value
      [] variant = "IntLargerThan" -> fact > value
      [] variant = "IntLessThan" -> fact < value

\* evaluate_condition with unwrap_or(default) in place of map_or(false, ..):
\* an absent fact is compared as the default of its kind.
RECURSIVE evaluate_condition_default(_, _)
evaluate_condition_default(condition, store) ==
    CASE condition.variant = "StringEquals" ->
            unwrap_or(MapGet(store.string_facts, condition.key), "") = condition.text
      [] condition.variant = "BoolEquals" ->
            unwrap_or(MapGet(store.bool_facts, condition.key), FALSE) = condition.flag
      [] condition.variant = "ListContains" ->
            condition.member \in unwrap_or(MapGet(store.list_facts, condition.key), {})
      [] condition.variant \in {"IntEquals", "IntLargerThan", "IntLessThan"} ->
            IntTest(condition.variant,
                    unwrap_or(MapGet(store.int_facts, condition.key), 0),
                    condition.number)
      [] condition.variant = "Invert" ->
            ~evaluate_condition_default(condition.inner, store)

RECURSIVE evaluate_condition(_, _)
evaluate_condition(condition, store) ==
    CASE condition.variant = "StringEquals" ->
            LET fact == MapGet(store.string_facts, condition.key)
            IN  IF fact = None THEN FALSE ELSE fact[1] = condition.text
      [] condition.variant = "BoolEquals" ->
            LET fact == MapGet(store.bool_facts, condition.key)
            IN  IF fact = None THEN FALSE ELSE fact[1] = condition.flag
      [] condition.variant = "ListContains" ->
            LET fact == MapGet(store.list_facts, condition.key)
            IN  IF fact = None THEN FALSE ELSE condition.member \in fact[1]
      [] condition.variant \in {"IntEquals", "IntLargerThan", "IntLessThan"} ->
            LET fact == MapGet(store.int_facts, condition.key)
            IN  IF fact = None THEN FALSE
                ELSE IntTest(condition.variant, fact[1], condition.number)
      [] condition.variant = "Invert" ->
            ~evaluate_condition(condition.inner, store)

\* evaluate with any() in place of all().
evaluate_any(conditions, store) ==
    \E i \in DOMAIN conditions : evaluate_condition(conditions[i], store)

\* Rule::evaluate: conditions.iter().all(..), which stops at the first
\* condition that is false.
RECURSIVE evaluate(_, _)
evaluate(conditions, store) ==
    IF conditions = <<>> THEN TRUE
    ELSE IF ~evaluate_condition(Head(conditions), store) THEN FALSE
    ELSE evaluate(Tail(conditions), store)

----------------------------------------------------------------------------
(* Calls of the read methods and of Rule::evaluate: they take &self and    *)
(* &FactStore, and return a value.                                         *)

Returned(op, key, val, result) ==
    last' = [Call(op, key, val, FALSE, FALSE, TRUE) EXCEPT !.result = result]

\* A get_int written with entry(key).or_insert(0): it creates the fact.
CallGetInt_or_insert(key) ==
    /\ pc = "running"
    /\ int_facts' = IF key \in DOMAIN int_facts THEN int_facts
                    ELSE MapInsert(int_facts, key, 0)
    /\ Returned("get_int", key, 0, Some(unwrap_or(get_int(key), 0)))
    /\ UNCHANGED <<string_facts, bool_facts, list_facts, changed, pc, modified,
                   written, chain, app>>

CallGetInt(key) ==
    /\ pc = "running"
    /\ Returned("get_int", key, 0, get_int(key))
    /\ UNCHANGED <<facts, changed, pc, modified, written, chain, app>>

CallGetString(key) ==
    /\ pc = "running"
    /\ Returned("get_string", key, 0, get_string(key))
    /\ UNCHANGED <<facts, changed, pc, modified, written, chain, app>>

CallGetBool(key) ==
    /\ pc = "running"
    /\ Returned("get_bool", key, 0, get_bool(key))
    /\ UNCHANGED <<facts, changed, pc, modified, written, chain, app>>

CallGetList(key) ==
    /\ pc = "running"
    /\ Returned("get_list", key, 0, get_list(key))
    /\ UNCHANGED <<facts, changed, pc, modified, written, chain, app>>

CallEvaluate(conditions) ==
    /\ pc = "running"
    /\ Returned("evaluate", "", conditions, Some(evaluate(conditions, fact_store)))
    /\ UNCHANGED <<facts, changed, pc, modified, written, chain, app>>

----------------------------------------------------------------------------
(* A host that writes facts of every kind under one key and evaluates      *)
(* rules against the store.                                                *)

MaxConditions == 2

RuleKeys == {"x"}
RuleInts == {0, 1, 2}

\* Every condition that compares or tests a fact, over all keys and literals.
Atoms ==
    {StringEquals(key, value) : key \in Keys, value \in StringValues}
    \cup {IntEquals(key, value) : key \in Keys, value \in RuleInts}
    \cup {IntLargerThan(key, value) : key \in Keys, value \in RuleInts}
    \cup {IntLessThan(key, value) : key \in Keys, value \in RuleInts}
    \cup {BoolEquals(key, value) : key \in Keys, value \in BOOLEAN}
    \cup {ListContains(key, value) : key \in Keys, value \in Members}

\* The conditions the host builds its rules from.
RuleConditions ==
    {IntLargerThan("x", 1), BoolEquals("x", TRUE), ListContains("x", "s"),
     Invert(IntEquals("x", 1)), Invert(Invert(StringEquals("x", "s")))}

Rules == UNION {[1..n -> RuleConditions] : n \in 0..MaxConditions}

NextRule ==
    \/ \E key \in RuleKeys, value \in RuleInts : CallStoreInt(key, value)
    \/ \E key \in RuleKeys, value \in StringValues : CallStoreString(key, value)
    \/ \E key \in RuleKeys, value \in BOOLEAN : CallStoreBool(key, value)
    \/ \E key \in RuleKeys, value \in Members : CallAddToStringList(key, value)
    \/ \E key \in RuleKeys, value \in Members : CallRemoveFromStringList(key, value)
    \/ \E key \in RuleKeys : CallGetInt(key)
    \/ \E key \in RuleKeys : CallGetString(key)
    \/ \E key \in RuleKeys : CallGetBool(key)
    \/ \E key \in RuleKeys : CallGetList(key)
    \/ \E conditions \in Rules : CallEvaluate(conditions)

SpecRule == Init /\ [][NextRule]_vars

\* The kind of fact a condition reads.
KindOf(variant) ==
    CASE variant = "StringEquals" -> "string"
      [] variant = "BoolEquals" -> "bool"
      [] variant = "ListContains" -> "list"
      [] variant \in {"IntEquals", "IntLargerThan", "IntLessThan"} -> "int"

NeverWritten(atom) == atom.key \notin written[KindOf(atom.variant)]

\* C13: for a key never written under the matching kind, StringEquals,
\* IntEquals, IntGreaterThan, IntLessThan, BoolEquals and SetContains are
\* false for every literal, and Not of the condition is true.
C13_AbsenceAndNegation ==
    \A atom \in Atoms :
        NeverWritten(atom)
        => /\ ~evaluate_condition(atom, fact_store)
           /\ evaluate_condition(Invert(atom), fact_store)

\* A rule made of the negation of a condition on a never-written key has
\* been evaluated, and returned true.
C13_Witness ==
    /\ last.op = "evaluate"
    /\ Len(last.val) = 1
    /\ last.val[1].variant = "Invert"
    /\ last.val[1].inner \in Atoms
    /\ NeverWritten(last.val[1].inner)
    /\ written.bool # {}
    /\ last.result = Some(TRUE)

\* The conditions of a rule taken in another order.
Reordered(rule, order) == [i \in DOMAIN rule |-> rule[order[i]]]

\* C14: Rule.evaluate(store) is true exactly when every condition of the
\* rule evaluates true against the store, whatever the order of the
\* conditions, and a rule with no conditions evaluates true on every store.
C14_RuleConjunction ==
    /\ evaluate(<<>>, fact_store)
    /\ last.op = "evaluate"
        => /\ last.result
                = Some(\A i \in DOMAIN last.val :
                           evaluate_condition(last.val[i], fact_store))
           /\ \A order \in Orders(DOMAIN last.val) :
                Some(evaluate(Reordered(last.val, order), fact_store))
                    = last.result

\* A rule of two conditions whose first holds and whose second does not has
\* been evaluated, and returned false.
C14_Witness ==
    /\ last.op = "evaluate"
    /\ Len(last.val) = 2
    /\ evaluate_condition(last.val[1], fact_store)
    /\ ~evaluate_condition(last.val[2], fact_store)
    /\ last.result = Some(FALSE)

ReadOps == {"get_int", "get_string", "get_bool", "get_list", "evaluate"}

\* C15: get_int, get_string, get_bool, get_set and Rule.evaluate, nested Not
\* conditions included, leave the four maps and the four changed-sets
\* unchanged.
C15_ReadsArePure ==
    [][
        last'.op \in ReadOps => /\ facts' = facts
                                /\ changed' = changed
    ]_vars

\* A rule holding a doubly negated condition has been evaluated against a
\* store that holds facts and pending changes.
C15_Witness ==
    /\ last.op = "evaluate"
    /\ \E i \in DOMAIN last.val :
        /\ last.val[i].variant = "Invert"
        /\ last.val[i].inner.variant = "Invert"
    /\ DOMAIN int_facts # {}
    /\ changed_int_facts # {}
    /\ changed_bool_facts # {}

Kinds == {"int", "string", "bool", "list"}

\* The kind of fact a write method writes.
WriteKind(op) ==
    CASE op \in {"store_int", "add_to_int", "subtract_from_int"} -> "int"
      [] op = "store_string" -> "string"
      [] op = "store_bool" -> "bool"
      [] op \in {"add_to_string_list", "remove_from_string_list"} -> "list"
      [] OTHER -> "none"

\* The map and the changed-set of a kind.
Namespace(kind) ==
    CASE kind = "int" -> <<int_facts, changed_int_facts>>
      [] kind = "string" -> <<string_facts, changed_string_facts>>
      [] kind = "bool" -> <<bool_facts, changed_bool_facts>>
      [] kind = "list" -> <<list_facts, changed_list_facts>>

\* C16: a write of one kind leaves the maps and the changed-sets of the three
\* other kinds unchanged, and no condition on a fact of another kind changes
\* its value; the same key holds facts of several kinds at once.
C16_NamespaceIndependence ==
    [][
        \A kind \in Kinds :
            WriteKind(last'.op) \notin {kind, "none"}
            => /\ Namespace(kind)' = Namespace(kind)
               /\ \A atom \in Atoms :
                    KindOf(atom.variant) = kind
                    => evaluate_condition(atom, fact_store')
                        = evaluate_condition(atom, fact_store)
    ]_vars

\* The key "x" holds an int, a bool and a set fact at once, the int one with
\* a notification pending, and the last call wrote the bool one.
C16_Witness ==
    /\ last.op = "store_bool"
    /\ last.key = "x"
    /\ "x" \in DOMAIN int_facts
    /\ "x" \in DOMAIN bool_facts
    /\ "x" \in DOMAIN list_facts
    /\ "x" \in changed_int_facts
    /\ "x" \notin changed_bool_facts
    /\ evaluate_condition(IntEquals("x", 1), fact_store)
    /\ evaluate_condition(ListContains("x", "s"), fact_store)

\* The variant of Fact an event of a kind carries.
FactVariant(kind) ==
    CASE kind = "int" -> "Int"
      [] kind = "string" -> "String"
      [] kind = "bool" -> "Bool"
      [] kind = "list" -> "StringList"

\* C17: a write that comes after a flush is not part of that flush: the key
\* it marks stays pending, the next flush sends exactly one notification for
\* it and unmarks it, and a further flush sends nothing.  (The flush owns the
\* store while it runs, so no write falls inside it.)
C17_WriteAfterFlush ==
    [][
        /\ (last.op = "flush" /\ WriteKind(last'.op) # "none")
            => \A kind \in Kinds : Namespace(kind)[2]' \subseteq {last'.key}
        /\ \A kind \in Kinds :
            (last'.op = "flush" /\ WriteKind(last.op) = kind
                /\ last.key \in Namespace(kind)[2])
            => /\ SentOnce(last'.sent, last.key, FactVariant(kind),
                           Namespace(kind)[1])
               /\ last.key \notin Namespace(kind)[2]'
        /\ (last.op = "flush" /\ last'.op = "flush") => last'.sent = <<>>
    ]_vars

\* C18: no store operation fails: every write call returns, and add_int and
\* sub_int leave old + delta and old - delta as the value of the key (absent
\* read as 0) for every current value and every delta, also when that
\* number lies outside the range of i32.  (No i32 equals a number outside
\* the range, so there the stored value is wrong whatever it is.)
C18_NoOperationFails ==
    [][
        /\ WriteKind(last'.op) # "none" => (last'.ok /\ pc' = "running")
        /\ last'.op = "add_to_int"
            => LET old == unwrap_or(MapGet(int_facts, last'.key), 0) IN
               IF AddOverflows(old, last'.val) THEN FALSE
               ELSE unwrap_or(MapGet(int_facts', last'.key), 0)
                        = old + last'.val
        /\ last'.op = "subtract_from_int"
            => LET old == unwrap_or(MapGet(int_facts, last'.key), 0) IN
               IF SubOverflows(old, last'.val) THEN FALSE
               ELSE unwrap_or(MapGet(int_facts', last'.key), 0)
                        = old - last'.val
    ]_vars

----------------------------------------------------------------------------
(* The Update schedule of main: button_system and                          *)
(* fact_update_event_broadcaster, in either order.  Both take              *)
(* ResMut<FactStore>, so one runs only while the other does not hold the   *)
(* store.  button_system is taken one statement at a time, add_to_int as   *)
(* its read (line 467) and its store (line 468).                           *)

MaxPresses == 3

Systems == {"button_system", "fact_update_event_broadcaster"}

Interaction == {"Pressed", "Hovered", "None"}

\* The buttons whose Interaction changed, in the order the query yields them.
Queries ==
    UNION {{[i \in DOMAIN order |-> [button |-> order[i], interaction |-> pick[order[i]]]] :
                order \in Orders(subset), pick \in [subset -> Interaction]} :
           subset \in SUBSET Buttons}

PressedIn(query) ==
    Cardinality({i \in DOMAIN query : query[i].interaction = "Pressed"})

\* One run of the Update schedule begins.
Update(query) ==
    /\ pc = "running"
    /\ app.holder = "none"
    /\ app.todo = {}
    /\ app.presses + PressedIn(query) <= MaxPresses
    /\ app' = [app EXCEPT !.todo = Systems, !.query = query, !.ran = <<>>,
                          !.seen = IF app.ran = <<>> THEN @
                                   ELSE @ \cup {app.ran}]
    /\ UNCHANGED <<facts, changed, pc, last, modified, written, chain>>

button_system_begin ==
    /\ pc = "running"
    /\ app.holder = "none"
    /\ "button_system" \in app.todo
    /\ app' = [app EXCEPT !.holder = "button_system",
                          !.ran = Append(@, "button_system")]
    /\ UNCHANGED <<facts, changed, pc, last, modified, written, chain>>

\* add_to_int, line 467: let current = get_int(&key).unwrap_or(&0).
button_system_Pressed_read ==
    /\ pc = "running"
    /\ app.holder = "button_system"
    /\ app.query # <<>>
    /\ Head(app.query).interaction = "Pressed"
    /\ app.current = None
    /\ app' = [app EXCEPT !.current = Some(unwrap_or(get_int("button_pressed"), 0))]
    /\ UNCHANGED <<facts, changed, pc, last, modified, written, chain>>

\* add_to_int, line 468: store_int(key, current + value).
add_to_int_store(key, current, value) ==
    IF AddOverflows(current, value)
    THEN \/ pc' = "panicked" /\ UNCHANGED <<int_facts, changed_int_facts>>
         \/ pc' = pc /\ store_int(key, wrapping_add(current, value))
    ELSE pc' = pc /\ store_int(key, current + value)

button_system_Pressed_store ==
    /\ pc = "running"
    /\ app.holder = "button_system"
    /\ app.current # None
    /\ UNCHANGED <<string_facts, bool_facts, list_facts, changed_string_facts,
                   changed_bool_facts, changed_list_facts>>
    /\ add_to_int_store("button_pressed", app.current[1], 1)
    /\ Record("add_to_int", "button_pressed", 1)
    /\ Touched("int", "button_pressed", int_facts, int_facts')
    /\ chain' = [chain EXCEPT !["button_pressed"] = -1]
    /\ app' = [app EXCEPT !.current = None, !.query = Tail(@),
                          !.presses = @ + 1,
                          !.text[Head(app.query).button] = Label("Press", 0)]

button_system_Hovered ==
    /\ pc = "running"
    /\ app.holder = "button_system"
    /\ app.query # <<>>
    /\ Head(app.query).interaction = "Hovered"
    /\ Returned("get_int", "button_pressed", 0, get_int("button_pressed"))
    /\ app' = [app EXCEPT !.query = Tail(@),
                          !.text[Head(app.query).button] =
                              Label("", unwrap_or(get_int("button_pressed"), 0))]
    /\ UNCHANGED <<facts, changed, pc, modified, written, chain>>

button_system_None ==
    /\ pc = "running"
    /\ app.holder = "button_system"
    /\ app.query # <<>>
    /\ Head(app.query).interaction = "None"
    /\ app' = [app EXCEPT !.query = Tail(@),
                          !.text[Head(app.query).button] = Label("Press to add", 0)]
    /\ UNCHANGED <<facts, changed, pc, last, modified, written, chain>>

button_system_end ==
    /\ pc = "running"
    /\ app.holder = "button_system"
    /\ app.query = <<>>
    /\ app' = [app EXCEPT !.holder = "none", !.todo = @ \ {"button_system"}]
    /\ UNCHANGED <<facts, changed, pc, last, modified, written, chain>>

\* The broadcaster started whoever holds the store.
run_fact_update_event_broadcaster_unsynchronized ==
    /\ pc = "running"
    /\ "fact_update_event_broadcaster" \in app.todo
    /\ \E int_order \in Orders(changed_int_facts),
          string_order \in Orders(changed_string_facts),
          bool_order \in Orders(changed_bool_facts),
          list_order \in Orders(changed_list_facts) :
            fact_update_event_broadcaster(int_order, string_order, bool_order,
                                          list_order)
    /\ chain' = [k \in IntKeys |-> -1]
    /\ app' = [app EXCEPT !.todo = @ \ {"fact_update_event_broadcaster"},
                          !.ran = Append(@, "fact_update_event_broadcaster")]

\* The broadcaster runs from start to end once it has the store.
run_fact_update_event_broadcaster ==
    /\ pc = "running"
    /\ app.holder = "none"
    /\ "fact_update_event_broadcaster" \in app.todo
    /\ \E int_order \in Orders(changed_int_facts),
          string_order \in Orders(changed_string_facts),
          bool_order \in Orders(changed_bool_facts),
          list_order \in Orders(changed_list_facts) :
            fact_update_event_broadcaster(int_order, string_order, bool_order,
                                          list_order)
    /\ chain' = [k \in IntKeys |-> -1]
    /\ app' = [app EXCEPT !.todo = @ \ {"fact_update_event_broadcaster"},
                          !.ran = Append(@, "fact_update_event_broadcaster")]

NextApp ==
    \/ \E query \in Queries : Update(query)
    \/ button_system_begin
    \/ button_system_Pressed_read
    \/ button_system_Pressed_store
    \/ button_system_Hovered
    \/ button_system_None
    \/ button_system_end
    \/ run_fact_update_event_broadcaster

SpecApp == Init /\ [][NextApp]_vars

\* The step starts a system of the Update schedule.
Started(system) ==
    /\ Len(app'.ran) = Len(app.ran) + 1
    /\ app'.ran[Len(app'.ran)] = system

\* C19: button_system and fact_update_event_broadcaster each run on the
\* store without the other in between, in either order within an Update;
\* after n Pressed interactions the counter "button_pressed" is n (n within
\* the bound, far below the i32 range of C18), and between the read and the
\* store of add_int there is no other write and no drain.
C19_NoLostUpdate ==
    [][
        /\ app.current # None
            => /\ last'.op = "add_to_int"
               /\ int_facts'["button_pressed"] = app.current[1] + 1
        /\ Started("fact_update_event_broadcaster") => app.holder = "none"
        /\ Started("button_system") => changed' = changed
        /\ pc' = "running"
            => IF app'.current = None
               THEN unwrap_or(MapGet(int_facts', "button_pressed"), 0)
                        = app'.presses
               ELSE app'.current = Some(app'.presses)
    ]_vars

\* Updates have run in both orders, and the counter stands at the number of
\* Pressed interactions handled, with the last one just notified.
C19_Witness ==
    /\ app.seen = {<<"button_system", "fact_update_event_broadcaster">>,
                   <<"fact_update_event_broadcaster", "button_system">>}
    /\ app.presses >= 2
    /\ MapGet(int_facts, "button_pressed") = Some(app.presses)
    /\ last.op = "flush"
    /\ last.sent = <<FactUpdated("button_pressed", "Int", app.presses)>>

\* C20: facts are created on first write and never deleted: after a write
\* of a value (set_int, add_int, sub_int, set_string, set_bool, add_to_set)
\* on a key the key is present in the kind's map, and a key present in a
\* map is present after every later operation, remove_from_set of the last
\* member and the flush included.
C20_CreatedNeverDeleted ==
    [][
        /\ \A kind \in Kinds :
            (WriteKind(last'.op) = kind /\ last'.op # "remove_from_string_list")
            => last'.key \in DOMAIN Namespace(kind)[1]'
        /\ \A kind \in Kinds :
            DOMAIN Namespace(kind)[1] \subseteq DOMAIN Namespace(kind)[1]'
        /\ (last'.op = "remove_from_string_list"
                /\ last'.key \in DOMAIN list_facts
                /\ list_facts[last'.key] \subseteq {last'.val})
            => list_facts'[last'.key] = {}
    ]_vars

----------------------------------------------------------------------------
(* A host that writes facts of every kind while the Update schedule runs   *)
(* fact_update_event_broadcaster once per tick: the flush is taken again   *)
(* and again as long as it can run.                                        *)

TickKeys == {"x"}

NextTick ==
    \/ \E key \in TickKeys, value \in IntFlags : CallStoreInt(key, value)
    \/ \E key \in TickKeys, value \in StringValues : CallStoreString(key, value)
    \/ \E key \in TickKeys, value \in BOOLEAN : CallStoreBool(key, value)
    \/ \E key \in TickKeys, value \in Members : CallAddToStringList(key, value)
    \/ \E key \in TickKeys, value \in Members : CallRemoveFromStringList(key, value)
    \/ Flush

SpecTick == Init /\ [][NextTick]_vars /\ WF_vars(Flush)

\* The most recent call is a flush that sent an event of the kind for the key.
Notified(kind, key) ==
    /\ last.op = "flush"
    /\ \E i \in DOMAIN last.sent :
          /\ last.sent[i].key = key
          /\ last.sent[i].fact.kind = FactVariant(kind)

\* C21: with the flush running once per tick, every key a write puts into a
\* changed-set is eventually notified, by the first flush after the write,
\* and stays in the changed-set until that flush: no write removes a key
\* from a changed-set.
C21_EventualNotification ==
    /\ [][
          /\ WriteKind(last'.op) # "none"
              => \A kind \in Kinds :
                    Namespace(kind)[2] \subseteq Namespace(kind)[2]'
          /\ Flushed
              => \A kind \in Kinds :
                    \A key \in Namespace(kind)[2] : Notified(kind, key)'
       ]_vars
    /\ \A kind \in Kinds, key \in TickKeys :
          (key \in Namespace(kind)[2]) ~> Notified(kind, key)

\* C22: after set_int(k, v) the condition IntEquals(k, v) evaluates true,
\* after set_bool(k, b) BoolEquals(k, b) does, and after set_string(k, s)
\* StringEquals(k, s) does, also when the value written is the default of the
\* kind (0, false, "") and the key was never written before.
C22_WriteThenEvaluate ==
    [][
        /\ last'.op = "store_int"
            => evaluate_condition(IntEquals(last'.key, last'.val), fact_store')
        /\ last'.op = "store_bool"
            => evaluate_condition(BoolEquals(last'.key, last'.val), fact_store')
        /\ last'.op = "store_string"
            => evaluate_condition(StringEquals(last'.key, last'.val), fact_store')
    ]_vars

\* The literals the int conditions are compared against: below, among and
\* above the values the host stores.
IntLiterals == RuleInts \cup {MinI32, -1, 3, MaxI32}

\* C23: for a key present in the int map with value x and any literal n,
\* IntGreaterThan(k, n) is true iff x > n, IntLessThan(k, n) is true iff
\* x < n, and exactly one of IntEquals, IntGreaterThan and IntLessThan is
\* true; at x = n both inequalities are false.
C23_StrictTrichotomy ==
    \A key \in DOMAIN int_facts, n \in IntLiterals :
        LET x == int_facts[key]
            eq == evaluate_condition(IntEquals(key, n), fact_store)
            gt == evaluate_condition(IntLargerThan(key, n), fact_store)
            lt == evaluate_condition(IntLessThan(key, n), fact_store)
        IN  /\ gt <=> x > n
            /\ lt <=> x < n
            /\ eq <=> x = n
            /\ Cardinality({c \in {"eq", "gt", "lt"} :
                               \/ c = "eq" /\ eq
                               \/ c = "gt" /\ gt
                               \/ c = "lt" /\ lt}) = 1
            /\ x = n => (~gt /\ ~lt)

\* The rule IntGreaterThan("x", 1) has been evaluated while "x" is exactly 1,
\* and returned false.
C23_Witness ==
    /\ last.op = "evaluate"
    /\ last.val = <<IntLargerThan("x", 1)>>
    /\ MapGet(int_facts, "x") = Some(1)
    /\ last.result = Some(FALSE)

\* C24: add_int(k, d) directly followed by sub_int(k, d), d # 0 and the sum
\* within the i32 range, leaves get_int(k) = Some(v), v the value of k before
\* the pair with absent read as 0, so that an absent key becomes present
\* with 0, and leaves k in the int changed-set.
C24_AddSubRoundTrip ==
    [][
        \A key \in IntKeys, delta \in Deltas \ {0} :
            (Did("subtract_from_int", key, delta) /\ last'.before # None)
            => LET v == unwrap_or(last'.before[1], 0) IN
               IF AddOverflows(v, delta) THEN TRUE
               ELSE /\ pc' = "running"
                    /\ get_int(key)' = Some(v)
                    /\ key \in changed_int_facts'
    ]_vars

\* The pair add_to_int("x", 1), subtract_from_int("x", 1) has run on a store
\* without "x": the key is now present with 0 and marked changed.
C24_Witness ==
    /\ last.op = "subtract_from_int"
    /\ last.key = "x"
    /\ last.val = 1
    /\ last.before = Some(None)
    /\ get_int("x") = Some(0)
    /\ "x" \in changed_int_facts

====
